---- MODULE Spec2Model ----
(***************************************************************************)
(* UIElementView / UIElement of bokehjs (models/ui/ui_element.ts): the     *)
(* view's cached bounding box, its display and style stylesheets, its      *)
(* resize observer, and the render / resize / teardown life cycle, driven  *)
(* by model changes and by the host surface (the DOM).                     *)
(***************************************************************************)
EXTENDS Integers, Sequences, FiniteSets, TLC

(***************************************************************************)
(* Bounds of the model.                                                    *)
(***************************************************************************)
\* Host geometry is measured in units of 1/Scale px, so that fractional
\* DOMRect values (and ties of Math.round) occur.
Scale == 2
\* Largest left/top (in 1/Scale px) the host reports in the geometry specification.
MaxCoord == 2
\* Largest width/height (in 1/Scale px) the host reports in the geometry specification.
MaxSize == 1
\* Longest model.classes sequence drawn in the classes specification.
MaxClasses == 2
\* Most pairs of a style source, and most selectors of a style sheet mapping, drawn
\* in the style sheet specification.
MaxPairs == 2
MaxRules == 2
\* Most pairs of a value of model.styles drawn in the inline style specification.
MaxStylePairs == 2

(***************************************************************************)
(* Values.                                                                 *)
(***************************************************************************)
\* Math.round on a value v/Scale: the nearest integer, ties towards +infinity.
round(v) == (2 * v + Scale) \div (2 * Scale)

\* An integer number of px as a host measurement.
px(n) == n * Scale

\* new BBox(): every field zero.
ZeroBBox == [left |-> 0, top |-> 0, width |-> 0, height |-> 0]

\* new BBox({left, top, width, height}).
BBox(l, t, w, h) == [left |-> l, top |-> t, width |-> w, height |-> h]

\* new StyleSheet(): no text.
EmptyCss == ""

\* The text _apply_visible gives the display style sheet of a hidden element.
DisplayNoneCss == ":host { display: none !important; }"

\* A DOMRect of the host surface, in 1/Scale px.
Rect(l, t, w, h) == [left |-> l, top |-> t, width |-> w, height |-> h]

(***************************************************************************)
(* Style sources (CSSStyles | Styles) and style sheets of the model.       *)
(***************************************************************************)
\* A style value that is a string, and one that is not (null).
Str(s) == [isString |-> TRUE, s |-> s]
Null == [isString |-> FALSE, s |-> ""]

\* Attribute names are sequences of characters, so that replace(/_/g, "-") acts on them.
RECURSIVE Concat(_)
Concat(chars) == IF chars = <<>> THEN "" ELSE Head(chars) \o Concat(Tail(chars))

\* attr.replace(/_/g, "-")
replace_underscores(attr) == Concat([i \in 1..Len(attr) |-> IF attr[i] = "_" THEN "-" ELSE attr[i]])

\* keys(Model.prototype._props): the property names of the base Model.
model_attrs == {<<"n", "a", "m", "e">>, <<"t", "a", "g", "s">>, <<"s", "y", "n", "c", "a", "b", "l", "e">>}

\* A plain mapping of attribute to value, in insertion order.
CSSStyles(entries) == [kind |-> "plain", entries |-> entries]
\* A Styles model: its properties (those of the base Model included) in definition order.
Styles(props) == [kind |-> "Styles", entries |-> props]

\* _iter_styles yielding every property of a Styles model.
_iter_styles_all(styles) == styles.entries

\* function* _iter_styles(styles): the (attr, value) pairs of a style source.
_iter_styles(styles) ==
  IF styles.kind = "Styles"
  THEN SelectSeq(styles.entries, LAMBDA prop : prop[1] \notin model_attrs)
  ELSE styles.entries

\* The names `name in this.el.style` holds for on the host surface.
HostProps ==
  {"color", "user-select", "-webkit-user-select", "-webkit-line-clamp",
   "-webkit-box-orient", "-moz-box-orient", "-moz-orient"}

\* An element's inline style with nothing set.
NoInlineStyle == [n \in HostProps |-> ""]

\* A style sheet entry of model.stylesheets: a string, or a mapping selector -> style source.
SheetText(text) == [kind |-> "text", text |-> text, rules |-> <<>>]
SheetMap(rules) == [kind |-> "map", text |-> "", rules |-> rules]

RECURSIVE join(_, _)
\* output.join(sep)
join(output, sep) ==
  IF output = <<>> THEN ""
  ELSE IF Len(output) = 1 THEN output[1]
  ELSE output[1] \o sep \o join(Tail(output), sep)

RECURSIVE declarations_keep_empty(_)
\* The inner loop of _apply_stylesheets writing a line for every string value,
\* the empty string included.
declarations_keep_empty(pairs) ==
  IF pairs = <<>> THEN <<>>
  ELSE LET attr == pairs[1][1]
           value == pairs[1][2]
           name == replace_underscores(attr)
           line == IF value.isString
                   THEN <<"  " \o name \o ": " \o value.s \o ";">>
                   ELSE <<>>
       IN line \o declarations_keep_empty(Tail(pairs))

RECURSIVE declarations(_)
\* The inner loop of _apply_stylesheets: one line for each pair with a non-empty string value.
declarations(pairs) ==
  IF pairs = <<>> THEN <<>>
  ELSE LET attr == pairs[1][1]
           value == pairs[1][2]
           name == replace_underscores(attr)
           line == IF value.isString /\ value.s # ""
                   THEN <<"  " \o name \o ": " \o value.s \o ";">>
                   ELSE <<>>
       IN line \o declarations(Tail(pairs))

RECURSIVE blocks(_)
\* The outer loop of _apply_stylesheets over entries(stylesheet).
blocks(rules) ==
  IF rules = <<>> THEN <<>>
  ELSE <<rules[1][1] \o " {">> \o declarations(_iter_styles(rules[1][2])) \o <<"}">>
       \o blocks(Tail(rules))

\* The callback _apply_stylesheets maps over its argument: a plain object is
\* rendered to text, anything else is passed through.
render_stylesheet(stylesheet) ==
  IF stylesheet.kind = "map" THEN join(blocks(stylesheet.rules), "\n") ELSE stylesheet.text

\* Attribute names used by the inputs.
attr_color == <<"c", "o", "l", "o", "r">>
attr_user_select == <<"u", "s", "e", "r", "_", "s", "e", "l", "e", "c", "t">>
attr_line_clamp == <<"l", "i", "n", "e", "_", "c", "l", "a", "m", "p">>
attr_zoom == <<"z", "o", "o", "m">>
attr_name == <<"n", "a", "m", "e">>
attr_bg_color == <<"b", "g", "_", "c", "o", "l", "o", "r">>
attr_box_orient == <<"b", "o", "x", "_", "o", "r", "i", "e", "n", "t">>
attr_orient == <<"o", "r", "i", "e", "n", "t">>

\* The default of model.styles ({}), and the style sources the application sets.
DefaultStyles == CSSStyles(<<>>)
StyleSources ==
  { DefaultStyles,
    CSSStyles(<<<<attr_color, Str("red")>>, <<attr_zoom, Str("2")>>>>),
    Styles(<<<<attr_name, Str("s1")>>, <<attr_user_select, Str("none")>>, <<attr_line_clamp, Null>>>>) }


(***************************************************************************)
(* State.                                                                  *)
(***************************************************************************)
VARIABLES
  model,             \* the UIElement: type, visible, classes, styles, stylesheets
  lifecycle,         \* "constructed", "initialized", "ready" (signals connected), "removed"
  signals,           \* the model properties whose change the view is connected to
  _resize_observer,  \* observing: the observer watches el; last: the size it last reported
  _display,          \* text of the _display style sheet
  style,             \* text of the style style sheet
  _bbox,             \* <<>> while undefined, else <<the cached BBox>>
  _has_finished,     \* set by finish()
  el,                \* the host element: attached, sheets, classes, (inline) style
  displayed,         \* host surface: el.offsetParent != null
  has_parent,        \* this.parent != null
  self_rect,         \* host surface: el.getBoundingClientRect()
  parent_rect,       \* host surface: parent.el.getBoundingClientRect()
  op,                \* the operation that ran last
  log,               \* the calls the last operation made, in order
  ret,               \* what the last operation returned (<<>>: nothing)
  vis_trip           \* history of delivered visible changes: phase, and the display
                     \* text saved when visible last went from true to false

vars == <<model, lifecycle, signals, _resize_observer, _display, style, _bbox,
          _has_finished, el, displayed, has_parent, self_rect, parent_rect,
          op, log, ret, vis_trip>>

host_vars == <<displayed, has_parent, self_rect, parent_rect>>

\* The view's mutable fields and its element, as the operations thread them.
View == [el |-> el, _display |-> _display, style |-> style, _bbox |-> _bbox,
         _has_finished |-> _has_finished, _resize_observer |-> _resize_observer,
         signals |-> signals, log |-> <<>>]

Commit(v) ==
  /\ el' = v.el
  /\ _display' = v._display
  /\ style' = v.style
  /\ _bbox' = v._bbox
  /\ _has_finished' = v._has_finished
  /\ _resize_observer' = v._resize_observer
  /\ signals' = v.signals
  /\ log' = v.log

Called(v, call) == [v EXCEPT !.log = Append(@, call)]

(***************************************************************************)
(* Base classes (DOMComponentView, DOMView, View).                         *)
(***************************************************************************)
\* DOMView.css_classes(): no class of its own.
css_classes == <<>>

\* DOMComponentView.styles(): the base style sheet.
super_styles == <<SheetText("base.css")>>

\* DOMComponentView.empty(): removes the rendered content, the installed style
\* sheets and the classes of the element.
empty(v) == Called([v EXCEPT !.el.sheets = <<>>, !.el.classes = <<>>], <<"empty">>)

\* DOMComponentView._apply_stylesheets(texts): installs each in order.
super_apply_stylesheets(v, texts) == [v EXCEPT !.el.sheets = @ \o texts]

\* DOMComponentView._apply_classes(classes): adds them in order.
_apply_classes(v, class_list) ==
  Called([v EXCEPT !.el.classes = @ \o class_list], <<"_apply_classes", class_list>>)

\* View.finish(): the finish signal.
finish(v) == Called([v EXCEPT !._has_finished = TRUE], <<"finish">>)

(***************************************************************************)
(* UIElementView.                                                          *)
(***************************************************************************)
\* A StyleSheet object of the view, as an entry of a style sheet list.
SheetRef(name) == [kind |-> "ref", text |-> "<" \o name \o ">", rules |-> <<>>]

\* get stylesheets(): [...this._stylesheets()], which yields style, then _display.
stylesheets == <<SheetRef("style"), SheetRef("_display")>>

\* *_classes(): yields `bk-${this.model.type}`.
_classes(m) == <<"bk-" \o m.type>>

\* get classes() that also yields the classes of the model.
classes_with_model(m) == css_classes \o _classes(m) \o m.classes

\* get classes(): [...this.css_classes(), ...this._classes()].
classes(m) == css_classes \o _classes(m)

\* styles(): [...super.styles(), ui_css].
styles == super_styles \o <<SheetText("ui.css")>>

\* update_style(): this.style.clear().
update_style(v) == Called([v EXCEPT !.style = EmptyCss], <<"update_style">>)

\* The host surface as the view reads it.
Host == [displayed |-> displayed, has_parent |-> has_parent,
         self_rect |-> self_rect, parent_rect |-> parent_rect]

\* _update_bbox with the offset of an element without parent measured from the
\* host's origin, rather than taken as zero.
measured_box_absolute(h) ==
  LET self == h.self_rect
      offset == IF h.has_parent
                THEN LET parent == h.parent_rect
                     IN [left |-> self.left - parent.left, top |-> self.top - parent.top]
                ELSE [left |-> self.left, top |-> self.top]
  IN BBox(round(offset.left), round(offset.top), round(self.width), round(self.height))

\* _update_bbox rounding the element's and the parent's position each on its own.
measured_box_round_each(h) ==
  LET self == h.self_rect
      offset == IF h.has_parent
                THEN LET parent == h.parent_rect
                     IN [left |-> round(self.left) - round(parent.left),
                         top |-> round(self.top) - round(parent.top)]
                ELSE [left |-> 0, top |-> 0]
  IN BBox(offset.left, offset.top, round(self.width), round(self.height))

\* The box _update_bbox builds for a displayed element (el.offsetParent != null).
measured_box(h) ==
  LET self == h.self_rect
      offset == IF h.has_parent
                THEN LET parent == h.parent_rect
                     IN [left |-> self.left - parent.left, top |-> self.top - parent.top]
                ELSE [left |-> 0, top |-> 0]
  IN BBox(round(offset.left), round(offset.top), round(self.width), round(self.height))

\* _update_bbox measuring the element whether or not it is displayed.
measure_bbox_always(h) == measured_box(h)

\* The value _update_bbox computes from the host surface h.
measure_bbox(h) == IF h.displayed THEN measured_box(h) ELSE ZeroBBox

\* _update_bbox(): this._bbox = bbox, whatever the previous value. The log tells
\* whether the box assigned equals the one cached before.
_update_bbox(v, h) ==
  LET box == measure_bbox(h)
      v1 == Called([v EXCEPT !._bbox = <<box>>], <<"_update_bbox">>)
  IN Called(v1, <<"this._bbox", IF v._bbox = <<box>> THEN "same" ELSE "replaced">>)

\* update_bbox(): this._update_bbox().
update_bbox(v, h) == _update_bbox(Called(v, <<"update_bbox">>), h)

\* get bbox() computing the box on every access.
bbox_access_always(v, h) == _update_bbox(v, h)

\* get bbox(): computes the box when none is cached; the view after the access.
bbox_access(v, h) == IF v._bbox = <<>> THEN _update_bbox(v, h) ELSE v

\* get bbox(): the value returned.
bbox(v, h) == bbox_access(v, h)._bbox[1]

\* _after_resize(): does nothing here.
_after_resize(v) == Called(v, <<"_after_resize">>)

\* after_resize() that stops when the box has not changed.
after_resize_if_changed(v, h) ==
  LET v1 == update_bbox(v, h)
  IN IF v1._bbox = v._bbox THEN v1 ELSE finish(_after_resize(v1))

\* after_resize(): update_bbox(), _after_resize(), finish().
after_resize(v, h) == finish(_after_resize(update_bbox(v, h)))

\* get _is_displayed(): this.el.offsetParent != null.
_is_displayed(h) == h.displayed

\* What `apply` returns: `name in this.el.style`.
known(name) == name \in HostProps

\* The closure `apply` of _apply_styles: assigns el.style[name] when the host
\* knows the name and the value is a string.
apply(v, name, value) ==
  LET v0 == Called(v, <<"apply", name>>)
  IN IF known(name) /\ value.isString
     THEN Called([v0 EXCEPT !.el.style[name] = value.s], <<"el.style", name, value.s>>)
     ELSE v0

RECURSIVE apply_pairs_every_variant(_, _)
\* The loop of _apply_styles trying the prefixed names whether or not the
\* unprefixed name is known.
apply_pairs_every_variant(v, pairs) ==
  IF pairs = <<>> THEN v
  ELSE LET name == replace_underscores(pairs[1][1])
           value == pairs[1][2]
           webkit == "-webkit-" \o name
           moz == "-moz-" \o name
           v1 == apply(apply(apply(v, name, value), webkit, value), moz, value)
           v2 == IF known(name) \/ known(webkit) \/ known(moz) THEN v1
                 ELSE Called(v1, <<"logger.trace", "unknown CSS property '" \o name \o "'">>)
       IN apply_pairs_every_variant(v2, Tail(pairs))

RECURSIVE apply_pairs(_, _)
\* The loop of _apply_styles over the pairs of _iter_styles(styles).
apply_pairs(v, pairs) ==
  IF pairs = <<>> THEN v
  ELSE LET name == replace_underscores(pairs[1][1])
           value == pairs[1][2]
           webkit == "-webkit-" \o name
           moz == "-moz-" \o name
           v1 == apply(v, name, value)
           v2 == IF known(name) THEN v1
                 ELSE LET w == apply(v1, webkit, value)
                      IN IF known(webkit) THEN w
                         ELSE LET z == apply(w, moz, value)
                              IN IF known(moz) THEN z
                                 ELSE Called(z, <<"logger.trace", "unknown CSS property '" \o name \o "'">>)
       IN apply_pairs(v2, Tail(pairs))

\* _apply_styles() that removes the inline styles set before.
_apply_styles_reset(v, m) ==
  apply_pairs(Called([v EXCEPT !.el.style = NoInlineStyle], <<"_apply_styles">>), _iter_styles(m.styles))

\* _apply_styles(): applies this.model.styles to el.style.
_apply_styles(v, m) == apply_pairs(Called(v, <<"_apply_styles">>), _iter_styles(m.styles))

\* _apply_stylesheets(stylesheets): renders each plain object and hands the list to the base.
_apply_stylesheets(v, sheets, what) ==
  super_apply_stylesheets(Called(v, <<"_apply_stylesheets", what>>),
                          [i \in 1..Len(sheets) |-> render_stylesheet(sheets[i])])

\* _apply_visible() that leaves the display sheet alone when the model is visible.
_apply_visible_no_clear(v, m) ==
  Called(IF m.visible THEN v ELSE [v EXCEPT !._display = DisplayNoneCss], <<"_apply_visible">>)

\* _apply_visible(): clears the display sheet when the model is visible, else hides the host.
_apply_visible(v, m) ==
  Called(IF m.visible
         THEN [v EXCEPT !._display = EmptyCss]
         ELSE [v EXCEPT !._display = DisplayNoneCss],
         <<"_apply_visible">>)

\* render() applying the visibility before the inline styles and the classes.
render_visible_first(v, m) ==
  LET v1 == empty(v)
      v2 == _apply_stylesheets(v1, styles, "this.styles()")
      v3 == _apply_stylesheets(v2, stylesheets, "this.stylesheets")
      v4 == _apply_stylesheets(v3, m.stylesheets, "this.model.stylesheets")
      v5 == _apply_visible(v4, m)
      v6 == _apply_styles(v5, m)
      v7 == _apply_classes(v6, classes(m))
  IN _apply_classes(v7, m.classes)

\* render() that does not empty the element first.
render_without_empty(v, m) ==
  LET v2 == _apply_stylesheets(v, styles, "this.styles()")
      v3 == _apply_stylesheets(v2, stylesheets, "this.stylesheets")
      v4 == _apply_stylesheets(v3, m.stylesheets, "this.model.stylesheets")
      v5 == _apply_styles(v4, m)
      v6 == _apply_classes(v5, classes(m))
      v7 == _apply_classes(v6, m.classes)
  IN _apply_visible(v7, m)

\* render() that leaves the visibility to the change handler.
render_without_visible(v, m) ==
  LET v1 == empty(v)
      v2 == _apply_stylesheets(v1, styles, "this.styles()")
      v3 == _apply_stylesheets(v2, stylesheets, "this.stylesheets")
      v4 == _apply_stylesheets(v3, m.stylesheets, "this.model.stylesheets")
      v5 == _apply_styles(v4, m)
      v6 == _apply_classes(v5, classes(m))
  IN _apply_classes(v6, m.classes)

\* render().
render(v, m) ==
  LET v1 == empty(v)
      v2 == _apply_stylesheets(v1, styles, "this.styles()")
      v3 == _apply_stylesheets(v2, stylesheets, "this.stylesheets")
      v4 == _apply_stylesheets(v3, m.stylesheets, "this.model.stylesheets")
      v5 == _apply_styles(v4, m)
      v6 == _apply_classes(v5, classes(m))
      v7 == _apply_classes(v6, m.classes)
  IN _apply_visible(v7, m)

\* after_render(): update_style(), and finish() when the element is not displayed.
after_render(v, h) ==
  LET v1 == update_style(v)
  IN IF ~_is_displayed(h) THEN finish(v1) ELSE v1

\* DOMView.render_to(element): appends el to element and renders.
super_render_to(v, m) == render(Called([v EXCEPT !.el.attached = TRUE], <<"super.render_to">>), m)

\* render_to(element): super.render_to(element), after_render().
render_to(v, m, h) == after_render(super_render_to(v, m), h)

\* The size a ResizeObserver on el sees: the border box, nothing while el is not displayed.
ObservedSize(h) == IF h.displayed THEN <<h.self_rect.width, h.self_rect.height>> ELSE <<0, 0>>

\* initialize(): super.initialize(), then a ResizeObserver calling after_resize() observes el.
initialize(v) ==
  Called([Called(v, <<"super.initialize">>)
            EXCEPT !._resize_observer = [observing |-> TRUE, last |-> <<0, 0>>]],
         <<"_resize_observer.observe">>)

\* The handlers connect_signals() registers on model.properties.
connected_properties == {"visible", "styles"}

\* connect_signals(): super.connect_signals(), on_change(visible, ...), on_change(styles, ...).
connect_signals(v) ==
  Called([v EXCEPT !.signals = @ \cup connected_properties], <<"connect_signals">>)

\* this._resize_observer.disconnect()
disconnect(v) ==
  Called([v EXCEPT !._resize_observer.observing = FALSE], <<"_resize_observer.disconnect">>)

\* DOMView.remove(): takes el out of the document and disconnects the view's signals.
super_remove(v) ==
  Called([v EXCEPT !.el.attached = FALSE, !.signals = {}], <<"super.remove">>)

\* remove() that forgets the observer.
remove_without_disconnect(v) == super_remove(v)

\* remove(): this._resize_observer.disconnect(), super.remove().
remove(v) == super_remove(disconnect(v))

\* new CanvasLayer(backend, hidpi), and canvas.resize(width, height).
CanvasLayer(backend, hidpi) == [backend |-> backend, hidpi |-> hidpi, width |-> 0, height |-> 0]
canvas_resize(canvas, width, height) == [canvas EXCEPT !.width = width, !.height = height]

\* The formats export() takes.
ExportTypes == {"auto", "png", "svg"}

\* export(type, hidpi) with a canvas backend for "png" only.
export_png_only(v, h, type, hidpi) ==
  LET output_backend == IF type = "png" THEN "canvas" ELSE "svg"
      canvas == CanvasLayer(output_backend, hidpi)
      box == bbox(v, h)
  IN canvas_resize(canvas, box.width, box.height)

\* export(type, hidpi): the canvas returned.
export(v, h, type, hidpi) ==
  LET output_backend == IF type = "auto" \/ type = "png" THEN "canvas" ELSE "svg"
      canvas == CanvasLayer(output_backend, hidpi)
      box == bbox(v, h)
  IN canvas_resize(canvas, box.width, box.height)

\* export(type, hidpi): the view after it, which has built a canvas, read
\* this.bbox and resized the canvas.
export_calls(v, h, type, hidpi) ==
  LET v1 == bbox_access(Called(v, <<"new CanvasLayer", hidpi>>), h)
  IN Called(v1, <<"canvas.resize", v1._bbox[1].width, v1._bbox[1].height>>)

\* View.serializable_state(): the type of the model.
super_serializable_state(m) == [type |-> m.type]

\* BBox.box: the four fields of a box.
box_of(b) == [x |-> b.left, y |-> b.top, width |-> b.width, height |-> b.height]

\* serializable_state(): {...super.serializable_state(), bbox: this.bbox.box}.
serializable_state(v, m, h) ==
  [type |-> super_serializable_state(m).type, bbox |-> box_of(bbox(v, h))]

(***************************************************************************)
(* Inputs.                                                                 *)
(***************************************************************************)
Kinds == {"button", "div"}
ClassNames == {"a", "b"}
ClassSeqs == UNION {[1..n -> ClassNames] : n \in 0..MaxClasses}

\* The style sources of a style sheet mapping: up to MaxPairs pairs of distinct
\* attributes, each value a string, the empty string or null; as a plain
\* mapping, and as a Styles model (which also has the properties of the base Model).
SheetAttrs == {attr_color, attr_bg_color}
SheetValues == {Str("red"), Str(""), Null}
PairSeqs ==
  UNION {{ps \in [1..n -> SheetAttrs \X SheetValues] :
            \A i, j \in 1..n : i # j => ps[i][1] # ps[j][1]} : n \in 0..MaxPairs}
SheetSources ==
  {CSSStyles(ps) : ps \in PairSeqs} \cup {Styles(<<<<attr_name, Str("s1")>>>> \o ps) : ps \in PairSeqs}

\* The style sheet mappings: up to MaxRules distinct selectors, each with a style source.
Selectors == {".sel", ":host"}
SelectorSeqs ==
  UNION {{ss \in [1..n -> Selectors] : \A i, j \in 1..n : i # j => ss[i] # ss[j]} : n \in 0..MaxRules}
SheetMaps ==
  UNION {{SheetMap([i \in 1..Len(ss) |-> <<ss[i], f[i]>>]) : f \in [1..Len(ss) -> SheetSources]} :
           ss \in SelectorSeqs}

\* The mapping {".sel": {color: "red", bg_color: ""}}.
ExampleSheetMap ==
  SheetMap(<< <<".sel", CSSStyles(<<<<attr_color, Str("red")>>, <<attr_bg_color, Str("")>>>>)>> >>)

\* The values of model.stylesheets: one mapping, or a string followed by a mapping.
OpaqueSheet == SheetText(".a { color: blue; }")
SheetCollections ==
  {<<sheet>> : sheet \in SheetMaps} \cup {<<OpaqueSheet>>, <<OpaqueSheet, ExampleSheetMap>>}

\* The values of model.styles of the inline style specification: up to
\* MaxStylePairs pairs of distinct attributes, each value a string or null, as a
\* plain mapping and as a Styles model. The host knows color, user_select (also
\* with the -webkit- prefix), line_clamp with the -webkit- prefix only,
\* box_orient with either prefix only, orient with the -moz- prefix only, and
\* neither zoom nor name in any form; name is a property of the base Model.
StyleAttrs ==
  {attr_color, attr_user_select, attr_line_clamp, attr_box_orient, attr_orient, attr_zoom, attr_name}
StyleValues == {Str("a"), Null}
StylePairSeqs ==
  UNION {{ps \in [1..n -> StyleAttrs \X StyleValues] :
            \A i, j \in 1..n : i # j => ps[i][1] # ps[j][1]} : n \in 0..MaxStylePairs}
InlineStyleSources ==
  {CSSStyles(ps) : ps \in StylePairSeqs} \cup {Styles(ps) : ps \in StylePairSeqs}

Origin == Rect(0, 0, 0, 0)
\* Every rectangle of the geometry specification.
FineRects == {Rect(l, t, w, h) : l \in 0..MaxCoord, t \in 0..MaxCoord, w \in 0..MaxSize, h \in 0..MaxSize}
FineParents == {Rect(l, t, px(8), px(8)) : l \in 0..MaxCoord, t \in 0..MaxCoord}
\* The layouts the host moves between in the life cycle specification.
CoarseRects == {Rect(1, px(1), px(3) + 1, px(1)), Rect(px(1), px(2) + 1, px(2), 1)}
CoarseParents == {Rect(1, px(1) + 1, px(8), px(8))}

Live == {"initialized", "ready"}

(***************************************************************************)
(* Initial state: the view has been constructed over a model.              *)
(***************************************************************************)
InitOf(Types, Visibles, Classes, Sources, Sheets, Rects, Parents) ==
  /\ model \in [type : Types, visible : Visibles, classes : Classes,
                styles : Sources, stylesheets : Sheets]
  /\ lifecycle = "constructed"
  /\ signals = {}
  /\ _resize_observer = [observing |-> FALSE, last |-> <<0, 0>>]
  /\ _display = EmptyCss
  /\ style = EmptyCss
  /\ _bbox = <<>>
  /\ _has_finished = FALSE
  /\ el = [attached |-> FALSE, sheets |-> <<>>, classes |-> <<>>, style |-> NoInlineStyle]
  /\ displayed = FALSE
  /\ has_parent \in BOOLEAN
  /\ self_rect \in Rects
  /\ parent_rect \in (IF has_parent THEN Parents ELSE {Origin})
  /\ op = "new"
  /\ log = <<>>
  /\ ret = <<>>
  /\ vis_trip = [phase |-> "idle", saved |-> EmptyCss]

\* A model constructed with the default of styles ({}).
InitWith(Types, Visibles, Classes, Sheets, Rects, Parents) ==
  InitOf(Types, Visibles, Classes, {DefaultStyles}, Sheets, Rects, Parents)

(***************************************************************************)
(* Operations of the view.                                                 *)
(***************************************************************************)
Initialize ==
  /\ lifecycle = "constructed"
  /\ lifecycle' = "initialized"
  /\ Commit(initialize(View))
  /\ op' = "initialize" /\ ret' = <<>>
  /\ UNCHANGED <<model, host_vars, vis_trip>>

ConnectSignals ==
  /\ lifecycle = "initialized"
  /\ lifecycle' = "ready"
  /\ Commit(connect_signals(View))
  /\ op' = "connect_signals" /\ ret' = <<>>
  /\ UNCHANGED <<model, host_vars, vis_trip>>

\* remove(); el leaves the document, so the host no longer displays it.
Remove ==
  /\ lifecycle \in Live
  /\ lifecycle' = "removed"
  /\ Commit(remove(View))
  /\ displayed' = FALSE
  /\ op' = "remove" /\ ret' = <<>>
  /\ UNCHANGED <<model, has_parent, self_rect, parent_rect, vis_trip>>

Render ==
  /\ lifecycle = "ready"
  /\ Commit(render(View, model))
  /\ op' = "render" /\ ret' = <<>>
  /\ UNCHANGED <<model, lifecycle, host_vars, vis_trip>>

\* render_to(element); d: whether the host displays el once it is in element.
RenderTo ==
  /\ lifecycle = "ready"
  /\ \E d \in BOOLEAN :
       /\ displayed' = d
       /\ Commit(render_to(View, model, [Host EXCEPT !.displayed = d]))
  /\ op' = "render_to" /\ ret' = <<>>
  /\ UNCHANGED <<model, lifecycle, has_parent, self_rect, parent_rect, vis_trip>>

\* The ResizeObserver callback: the host delivers it when the observed size differs
\* from the one last reported.
ResizeNotify ==
  /\ _resize_observer.observing
  /\ ObservedSize(Host) # _resize_observer.last
  /\ Commit(after_resize([View EXCEPT !._resize_observer.last = ObservedSize(Host)], Host))
  /\ op' = "resize_notify" /\ ret' = <<>>
  /\ UNCHANGED <<model, lifecycle, host_vars, vis_trip>>

\* after_resize() called by a consumer.
AfterResize ==
  /\ lifecycle \in Live
  /\ Commit(after_resize(View, Host))
  /\ op' = "after_resize" /\ ret' = <<>>
  /\ UNCHANGED <<model, lifecycle, host_vars, vis_trip>>

\* update_bbox() called by a consumer.
UpdateBBox ==
  /\ lifecycle \in Live
  /\ Commit(update_bbox(View, Host))
  /\ op' = "update_bbox" /\ ret' = <<>>
  /\ UNCHANGED <<model, lifecycle, host_vars, vis_trip>>

\* The bbox query.
GetBBox ==
  /\ lifecycle \in Live
  /\ Commit(bbox_access(View, Host))
  /\ op' = "bbox" /\ ret' = <<"BBox", bbox(View, Host)>>
  /\ UNCHANGED <<model, lifecycle, host_vars, vis_trip>>

Export ==
  /\ lifecycle \in Live
  /\ \E type \in ExportTypes, hidpi \in BOOLEAN :
       /\ ret' = <<"CanvasLayer", type, export(View, Host, type, hidpi)>>
       /\ Commit(export_calls(View, Host, type, hidpi))
  /\ op' = "export"
  /\ UNCHANGED <<model, lifecycle, host_vars, vis_trip>>

SerializableState ==
  /\ lifecycle \in Live
  /\ Commit(bbox_access(View, Host))
  /\ op' = "serializable_state" /\ ret' = <<"SerializableState", serializable_state(View, model, Host)>>
  /\ UNCHANGED <<model, lifecycle, host_vars, vis_trip>>

\* The classes query.
GetClasses ==
  /\ lifecycle \in Live
  /\ Commit(View)
  /\ op' = "classes" /\ ret' = <<"classes", classes(model)>>
  /\ UNCHANGED <<model, lifecycle, host_vars, vis_trip>>

(***************************************************************************)
(* Changes of the model, delivered to the handlers of connect_signals.     *)
(***************************************************************************)
\* model.visible = !model.visible; the handler runs _apply_visible().
SetVisible ==
  /\ model' = [model EXCEPT !.visible = ~model.visible]
  /\ IF "visible" \in signals
     THEN /\ Commit(_apply_visible(View, model'))
          /\ vis_trip' = IF model.visible
                         THEN [phase |-> "off", saved |-> _display]
                         ELSE IF vis_trip.phase = "off"
                              THEN [vis_trip EXCEPT !.phase = "back"]
                              ELSE [phase |-> "idle", saved |-> EmptyCss]
     ELSE /\ Commit(View)
          /\ vis_trip' = [phase |-> "idle", saved |-> EmptyCss]
  /\ op' = "set_visible" /\ ret' = <<>>
  /\ UNCHANGED <<lifecycle, host_vars>>

\* model.styles = s; the handler runs _apply_styles().
SetStyles(Sources) ==
  /\ \E s \in Sources \ {model.styles} : model' = [model EXCEPT !.styles = s]
  /\ IF "styles" \in signals
     THEN Commit(_apply_styles(View, model'))
     ELSE Commit(View)
  /\ op' = "set_styles" /\ ret' = <<>>
  /\ UNCHANGED <<lifecycle, host_vars, vis_trip>>

(***************************************************************************)
(* The host surface.                                                       *)
(***************************************************************************)
\* The element, in the document, starts or stops being displayed.
HostDisplay ==
  /\ el.attached
  /\ displayed' = ~displayed
  /\ Commit(View)
  /\ op' = "host_display" /\ ret' = <<>>
  /\ UNCHANGED <<model, lifecycle, has_parent, self_rect, parent_rect, vis_trip>>

\* The layout of the displayed element, or of its parent, changes.
HostLayout(Rects, Parents) ==
  /\ displayed
  /\ \E s \in Rects, p \in (IF has_parent THEN Parents ELSE {Origin}) :
       /\ <<s, p>> # <<self_rect, parent_rect>>
       /\ self_rect' = s
       /\ parent_rect' = p
  /\ Commit(View)
  /\ op' = "host_layout" /\ ret' = <<>>
  /\ UNCHANGED <<model, lifecycle, displayed, has_parent, vis_trip>>

HostLayoutCoarse == HostLayout(CoarseRects, CoarseParents)

\* The style sources of the life cycle specification.
CoarseStyleSources == {DefaultStyles, CSSStyles(<<<<attr_color, Str("red")>>, <<attr_zoom, Str("2")>>>>)}
SetStylesCoarse == SetStyles(CoarseStyleSources)

\* The declared style sheets of the life cycle specification.
CoarseStylesheets ==
  { << SheetText(".a { color: blue; }"),
       SheetMap(<< <<".sel", CSSStyles(<<<<attr_color, Str("red")>>, <<attr_user_select, Str("")>>>>)>> >>) >> }

\* The default of model.stylesheets ([]), and a declared collection.
StylesheetCollections == {<<>>} \cup CoarseStylesheets

(***************************************************************************)
(* Specifications.                                                         *)
(***************************************************************************)
\* The life cycle: every operation, a few layouts.
Init == InitWith({"button"}, BOOLEAN, {<<"a", "b">>}, CoarseStylesheets, CoarseRects, CoarseParents)

Next ==
  \/ Initialize
  \/ ConnectSignals
  \/ Remove
  \/ Render
  \/ RenderTo
  \/ ResizeNotify
  \/ AfterResize
  \/ UpdateBBox
  \/ GetBBox
  \/ Export
  \/ SerializableState
  \/ GetClasses
  \/ SetVisible
  \/ SetStylesCoarse
  \/ HostDisplay
  \/ HostLayoutCoarse

Spec == Init /\ [][Next]_vars

\* The life cycle with the host delivering every resize notification that is due:
\* a ResizeObserver whose target has a size other than the one last reported
\* calls back on a later turn of the event loop.
SpecLive == Spec /\ WF_vars(ResizeNotify)

\* The geometry: every layout of the bounds, measured by the operations that compute the box.
InitGeom == InitWith({"button"}, {TRUE}, {<<>>}, {<<>>}, FineRects, FineParents)

NextGeom ==
  \/ Initialize
  \/ ConnectSignals
  \/ RenderTo
  \/ HostDisplay
  \/ ResizeNotify
  \/ UpdateBBox
  \/ GetBBox

SpecGeom == InitGeom /\ [][NextGeom]_vars

\* The classes: every kind and every model class sequence of the bounds.
InitClasses == InitWith(Kinds, {TRUE}, ClassSeqs, {<<>>}, {Origin}, {Origin})

NextClasses ==
  \/ Initialize
  \/ ConnectSignals
  \/ Render
  \/ RenderTo
  \/ GetClasses

SpecClasses == InitClasses /\ [][NextClasses]_vars

\* The style sheets: every declared mapping of the bounds, rendered.
InitSheets ==
  /\ InitWith({"button"}, {TRUE}, {<<>>}, SheetCollections, {Origin}, {Origin})
  /\ ~has_parent

NextSheets ==
  \/ Initialize
  \/ ConnectSignals
  \/ Render
  \/ RenderTo

SpecSheets == InitSheets /\ [][NextSheets]_vars

\* The inline styles: a model constructed with any style source of the bounds,
\* rendered, and its styles changed.
InitStyles ==
  /\ InitOf({"button"}, {TRUE}, {<<>>}, InlineStyleSources, {<<>>}, {Origin}, {Origin})
  /\ ~has_parent

SetStylesAny == SetStyles(StyleSources)

NextStyles ==
  \/ Initialize
  \/ ConnectSignals
  \/ Render
  \/ SetStylesAny

SpecStyles == InitStyles /\ [][NextStyles]_vars

(***************************************************************************)
(* Properties.                                                             *)
(***************************************************************************)
\* The last operation made the call.
Did(call) == \E i \in 1..Len(log) : log[i] = call

\* The value a bbox query returns in the current state.
QueriedBBox == bbox(View, Host)

\* C1: once remove() has run, no resize callback reaches the view: the cached
\* bbox keeps its value and neither _update_bbox nor _after_resize runs again,
\* whatever size the host reports. The observer started by initialize() is
\* observing as long as the view lives, and is disconnected by remove() only,
\* once, before super.remove().
C1_NoResizeAfterRemove ==
  /\ [](/\ lifecycle \in Live => _resize_observer.observing
        /\ lifecycle = "removed" => ~_resize_observer.observing
        /\ op = "remove" => log = << <<"_resize_observer.disconnect">>, <<"super.remove">> >>
        /\ Did(<<"_resize_observer.disconnect">>) => op = "remove")
  /\ [][lifecycle = "removed" =>
          /\ _bbox' = _bbox
          /\ op' # "resize_notify"
          /\ ~Did(<<"_update_bbox">>)'
          /\ ~Did(<<"_after_resize">>)']_vars

\* C1 witness: the view is removed while the host reports a size other than
\* the one last delivered to it (a resize event the observer would have reported).
C1_Witness ==
  /\ lifecycle = "removed"
  /\ ObservedSize(Host) # _resize_observer.last
  /\ _bbox # <<>>

\* C2 as claimed: in every state of a live view where the host does not
\* display the element, the bbox query returns the zero BBox.
C2_ZeroWheneverNotDisplayed ==
  (lifecycle \in Live /\ ~displayed) => QueriedBBox = ZeroBBox

\* C2 amended: whenever the box is computed (by a query with nothing cached, or
\* by update_bbox) while the host does not display the element, the cached box
\* and the value a query then returns are the zero BBox.
C2_ZeroWhenComputedNotDisplayed ==
  (lifecycle \in Live /\ Did(<<"_update_bbox">>) /\ ~displayed) =>
    (_bbox = <<ZeroBBox>> /\ QueriedBBox = ZeroBBox)

\* C2 witness: the box was just computed for an element that is not displayed
\* and whose rectangle would not round to zero.
C2_Witness ==
  /\ lifecycle \in Live
  /\ Did(<<"_update_bbox">>)
  /\ ~displayed
  /\ measured_box(Host) # ZeroBBox

\* C3 as claimed: when render_to() completes on an element that is not
\* displayed, the cached box has been recomputed at that point, so that a box
\* cached while the element was displayed is replaced by the zero BBox: a
\* query after that render returns the zero BBox.
C3_NoStaleBoxAfterRenderTo ==
  (op = "render_to" /\ ~displayed) => QueriedBBox = ZeroBBox

\* C4 as claimed: the box computed for a displayed element without parent has
\* left = round(measured.left), top = round(measured.top), and the rounded
\* measured width and height.
C4_AbsolutePosition ==
  (Did(<<"_update_bbox">>) /\ displayed /\ ~has_parent) =>
    _bbox = <<BBox(round(self_rect.left), round(self_rect.top),
                   round(self_rect.width), round(self_rect.height))>>

\* C4 amended: the box computed for a displayed element without parent has
\* left = 0 and top = 0, whatever the host measures, and width and height
\* the rounded measured width and height.
C4_ZeroPosition ==
  (Did(<<"_update_bbox">>) /\ displayed /\ ~has_parent) =>
    _bbox = <<BBox(0, 0, round(self_rect.width), round(self_rect.height))>>

\* C4 witness: a box was computed for a displayed element without parent
\* whose measured left and top do not round to zero.
C4_Witness ==
  /\ Did(<<"_update_bbox">>) /\ displayed /\ ~has_parent
  /\ round(self_rect.left) # 0 /\ round(self_rect.top) # 0
  /\ round(self_rect.width) # 0

\* C5: the box computed for a displayed element with a parent has
\* left = round(child.left - parent.left), top = round(child.top - parent.top),
\* and the rounded width and height of the child alone.
C5_RelativePosition ==
  (Did(<<"_update_bbox">>) /\ displayed /\ has_parent) =>
    _bbox = <<BBox(round(self_rect.left - parent_rect.left),
                   round(self_rect.top - parent_rect.top),
                   round(self_rect.width), round(self_rect.height))>>

\* C5 witness: a box was computed for a displayed child where rounding the
\* difference is not the difference of the roundings.
C5_Witness ==
  /\ Did(<<"_update_bbox">>) /\ displayed /\ has_parent
  /\ round(self_rect.left - parent_rect.left) # round(self_rect.left) - round(parent_rect.left)
  /\ self_rect.width # parent_rect.width

\* C6: when visible goes from true to false and back to true, each change
\* delivered to the view, the display style sheet has again the text it had
\* before the first change.
C6_VisibleRoundTrip ==
  vis_trip.phase = "back" => (model.visible /\ _display = vis_trip.saved)

\* C6 witness: visible has just come back to true after a delivered round trip.
C6_Witness == vis_trip.phase = "back" /\ op = "set_visible" /\ lifecycle = "ready"

\* The calls of render() among the calls of the last operation.
RenderCalls ==
  SelectSeq(log, LAMBDA c : c[1] \in {"empty", "_apply_stylesheets", "_apply_styles",
                                      "_apply_classes", "_apply_visible"})

\* C7: a render (alone or within render_to) makes its calls in this order:
\* empty, the intrinsic style sheets, the view's style sheets, the model's
\* style sheets, the inline styles, the classes of the view, the classes of
\* the model, the visibility; the element then holds the style sheets and the
\* classes in that order, and the display sheet follows model.visible.
C7_RenderOrder ==
  op \in {"render", "render_to"} =>
    /\ RenderCalls = << <<"empty">>,
                        <<"_apply_stylesheets", "this.styles()">>,
                        <<"_apply_stylesheets", "this.stylesheets">>,
                        <<"_apply_stylesheets", "this.model.stylesheets">>,
                        <<"_apply_styles">>,
                        <<"_apply_classes", classes(model)>>,
                        <<"_apply_classes", model.classes>>,
                        <<"_apply_visible">> >>
    /\ el.sheets = <<"base.css", "ui.css", "<style>", "<_display>">>
                   \o [i \in 1..Len(model.stylesheets) |-> render_stylesheet(model.stylesheets[i])]
    /\ el.classes = classes(model) \o model.classes
    /\ _display = IF model.visible THEN EmptyCss ELSE DisplayNoneCss

\* C7 witness: a render of a hidden model with inline styles, over an earlier render.
C7_Witness ==
  /\ op = "render" /\ ~model.visible /\ model.styles # DefaultStyles
  /\ el.attached /\ Did(<<"logger.trace", "unknown CSS property 'zoom'">>)

\* The state of the view other than the cached box.
ViewButBBox == <<model, lifecycle, signals, _resize_observer, _display, style, _has_finished, el>>

\* C8 as claimed: serializable_state() leaves the whole state of the view
\* unchanged, the cached box included (an undefined box stays undefined).
C8_ReadOnly ==
  [][op' = "serializable_state" => UNCHANGED <<ViewButBBox, _bbox>>]_vars

\* C8 amended: serializable_state() leaves the state of the view unchanged but
\* for the cached box when none is cached yet: it then caches the box it
\* measures; a cached box is left as it is, and the box returned is the cached one.
C8_ReadOnlyButFirstAccess ==
  [][op' = "serializable_state" =>
       /\ UNCHANGED ViewButBBox
       /\ _bbox # <<>> => _bbox' = _bbox
       /\ _bbox = <<>> => _bbox' = <<measure_bbox(Host)>>
       /\ ret'[2].bbox = box_of(_bbox'[1])]_vars

\* C8 witness: serializable_state() has just computed the box of a displayed element.
C8_Witness ==
  op = "serializable_state" /\ Did(<<"_update_bbox">>) /\ _bbox # <<ZeroBBox>>

\* C9: a bbox query measures only when no box is cached; with a box cached it
\* returns that box and leaves it in place; a cached box is replaced only by
\* an operation that calls update_bbox (after_resize, or update_bbox itself),
\* never by export, serializable_state, render, render_to or a model change.
C9_CacheReplacedOnlyByUpdate ==
  [][/\ (op' = "bbox" /\ _bbox # <<>>) =>
          (ret' = <<"BBox", _bbox[1]>> /\ _bbox' = _bbox /\ ~Did(<<"_update_bbox">>)')
     /\ (op' = "bbox" /\ _bbox = <<>>) =>
          (ret' = <<"BBox", measure_bbox(Host)>> /\ _bbox' = <<measure_bbox(Host)>>)
     /\ (_bbox # <<>> /\ _bbox' # _bbox) => Did(<<"update_bbox">>)'
     /\ (Did(<<"_update_bbox">>)' /\ ~Did(<<"update_bbox">>)') =>
          (_bbox = <<>> /\ op' \in {"bbox", "export", "serializable_state"})
     /\ (op' \in {"export", "serializable_state", "render", "render_to",
                  "set_visible", "set_styles"} /\ _bbox # <<>>) => _bbox' = _bbox]_vars

\* C9 witness: a query has returned the cached box without measuring, while
\* the host would now measure another box.
C9_Witness ==
  op = "bbox" /\ log = <<>> /\ _bbox # <<measure_bbox(Host)>> /\ ret = <<"BBox", _bbox[1]>>

\* The calls of _apply_classes among the calls of the last operation.
ClassCalls == SelectSeq(log, LAMBDA c : c[1] = "_apply_classes")

\* C10 as claimed: the classes query returns "bk-" + kind followed by the
\* classes of the model in declared order.
C10_QueryHoldsModelClasses ==
  op = "classes" => ret[2] = <<"bk-" \o model.type>> \o model.classes

\* C10 amended: the classes query returns the single class "bk-" + kind and
\* none of the classes of the model; a render applies the result of the query
\* and then, in a second call, the classes of the model in declared order,
\* duplicates kept and unsorted.
C10_QueryThenModelClasses ==
  /\ op = "classes" => ret[2] = <<"bk-" \o model.type>>
  /\ op \in {"render", "render_to"} =>
       ClassCalls = << <<"_apply_classes", <<"bk-" \o model.type>> >>,
                       <<"_apply_classes", model.classes>> >>

\* C10 witness: the query on a button whose model declares the classes a, b.
C10_Witness ==
  op = "classes" /\ model.type = "button" /\ model.classes = <<"a", "b">>
  /\ ret[2] = <<"bk-button">>

\* The CSS name of an attribute of the inputs, written out.
CssName(attr) ==
  CASE attr = attr_color -> "color"
    [] attr = attr_bg_color -> "bg-color"
    [] attr = attr_user_select -> "user-select"
    [] attr = attr_line_clamp -> "line-clamp"
    [] attr = attr_zoom -> "zoom"
    [] attr = attr_name -> "name"
    [] attr = attr_box_orient -> "box-orient"
    [] attr = attr_orient -> "orient"

\* The pairs of a style source that are its own: a Styles model leaves out the
\* properties of the base Model.
OwnPairs(source) ==
  SelectSeq(source.entries, LAMBDA p : source.kind = "Styles" => p[1] \notin model_attrs)

\* The text of one rule: the selector line, a line for each pair whose value is a
\* non-empty string, the closing line, each but the last ended by a newline.
RECURSIVE DeclarationText(_)
DeclarationText(pairs) ==
  IF pairs = <<>> THEN ""
  ELSE LET n == Len(pairs)
           p == pairs[n]
       IN DeclarationText(SubSeq(pairs, 1, n - 1))
          \o (IF p[2].isString /\ p[2].s # ""
              THEN "  " \o CssName(p[1]) \o ": " \o p[2].s \o ";" \o "\n"
              ELSE "")
RuleText(rule) == rule[1] \o " {" \o "\n" \o DeclarationText(OwnPairs(rule[2])) \o "}"

\* The text of a style sheet entry: the rules of a mapping in order, a newline
\* between two; a string as it is.
RECURSIVE RulesText(_)
RulesText(rules) ==
  IF rules = <<>> THEN ""
  ELSE LET n == Len(rules)
       IN (IF n = 1 THEN "" ELSE RulesText(SubSeq(rules, 1, n - 1)) \o "\n") \o RuleText(rules[n])
SheetEntryText(sheet) == IF sheet.kind = "map" THEN RulesText(sheet.rules) ELSE sheet.text

\* The style sheets render() installs before those of the model.
OwnSheets == Len(styles) + Len(stylesheets)

\* C11: after render() or render_to(), the style sheets installed for
\* model.stylesheets are, in order, the text of each entry: for a mapping, per
\* selector in insertion order, "<selector> {", then "  <name>: <value>;" for
\* each pair in insertion order whose value is a non-empty string (name is the
\* attribute with "_" replaced by "-"), then "}", joined by newlines; a pair
\* whose value is empty or not a string gives no line; a string entry is passed
\* through unchanged; and rendering the style sheets assigns no inline style.
\* {".sel": {color: "red", bg_color: ""}} gives ".sel {\n  color: red;\n}".
C11_StylesheetText ==
  op \in {"render", "render_to"} =>
    /\ Len(el.sheets) = OwnSheets + Len(model.stylesheets)
    /\ \A i \in 1..Len(model.stylesheets) :
         el.sheets[OwnSheets + i] = SheetEntryText(model.stylesheets[i])
    /\ model.stylesheets = <<OpaqueSheet, ExampleSheetMap>> =>
         SubSeq(el.sheets, OwnSheets + 1, OwnSheets + 2)
           = <<".a { color: blue; }", ".sel {\n  color: red;\n}">>
    /\ el.style = NoInlineStyle

\* A mapping of two selectors is rendered: the first rule has a pair with an empty
\* value and a pair with an underscore in its name, the second is a Styles model.
C11_Witness ==
  /\ op = "render"
  /\ Len(model.stylesheets) = 1
  /\ model.stylesheets[1].kind = "map"
  /\ Len(model.stylesheets[1].rules) = 2
  /\ model.stylesheets[1].rules[1][2] = CSSStyles(<<<<attr_color, Str("")>>, <<attr_bg_color, Str("red")>>>>)
  /\ model.stylesheets[1].rules[2][2].kind = "Styles"
  /\ el.sheets[OwnSheets + 1] = ".sel {\n  bg-color: red;\n}\n:host {\n}"

\* The last operation applied the inline styles of the model.
StylesApplied == op \in {"render", "render_to"} \/ (op = "set_styles" /\ "styles" \in signals)

\* The calls of _apply_styles in a log: the names tried, the assignments, the diagnostics.
StyleCalls(l) == SelectSeq(l, LAMBDA c : c[1] \in {"apply", "el.style", "logger.trace"})
Assignments(l) == {<<l[i][2], l[i][3]>> : i \in {j \in 1..Len(l) : l[j][1] = "el.style"}}
TriedNames(l) == {l[i][2] : i \in {j \in 1..Len(l) : l[j][1] = "apply"}}

\* The names, prefixed or not, of the properties of the base Model.
BaseNames ==
  UNION {{CssName(a), "-webkit-" \o CssName(a), "-moz-" \o CssName(a)} :
           a \in model_attrs \cap StyleAttrs}

\* C12: a plain mapping and a Styles model holding the same pairs make the same
\* set of (property, value) assignments to el.style, except that the Styles
\* model skips every attribute that is a property of the base Model: it assigns
\* what the plain mapping without those attributes assigns, and never tries a
\* name of the base Model. The inline styles the view applied are those of the
\* form the model holds.
C12_PlainAndTypedAgree ==
  StylesApplied =>
    LET pairs == model.styles.entries
        own == SelectSeq(pairs, LAMBDA p : p[1] \notin model_attrs)
        plain == _apply_styles(View, [model EXCEPT !.styles = CSSStyles(pairs)])
        plain_own == _apply_styles(View, [model EXCEPT !.styles = CSSStyles(own)])
        typed == _apply_styles(View, [model EXCEPT !.styles = Styles(pairs)])
        held == IF model.styles.kind = "Styles" THEN typed ELSE plain
    IN /\ StyleCalls(log) = StyleCalls(held.log)
       /\ el.style = held.el.style
       /\ Assignments(typed.log) = Assignments(plain_own.log)
       /\ typed.el.style = plain_own.el.style
       /\ Assignments(typed.log) \subseteq Assignments(plain.log)
       /\ \A a \in Assignments(plain.log) \ Assignments(typed.log) : a[1] \in BaseNames
       /\ TriedNames(typed.log) \cap BaseNames = {}
       /\ TriedNames(plain.log) = TriedNames(typed.log)
                                   \cup {n \in BaseNames : \E p \in {pairs[i] : i \in 1..Len(pairs)} :
                                                             n \in {CssName(p[1]), "-webkit-" \o CssName(p[1]),
                                                                     "-moz-" \o CssName(p[1])}
                                                             /\ p[1] \in model_attrs}

\* A Styles model holding a property of the base Model and a property the host
\* knows has been rendered.
C12_Witness ==
  /\ op = "render"
  /\ model.styles = Styles(<<<<attr_name, Str("a")>>, <<attr_line_clamp, Str("a")>>>>)
  /\ Assignments(log) = {<<"-webkit-line-clamp", "a">>}
  /\ el.style["-webkit-line-clamp"] = "a"

\* C13: export(type, hidpi), for each of "auto", "png", "svg" and either hidpi,
\* returns a canvas built by this call, with the canvas backend for "auto" and
\* "png" and the svg backend for "svg", resized to exactly the width and the
\* height of this.bbox (the box a bbox query returns).
C13_ExportTarget ==
  op = "export" =>
    LET type == ret[2]
        canvas == ret[3]
    IN /\ type \in {"auto", "png"} => canvas.backend = "canvas"
       /\ type = "svg" => canvas.backend = "svg"
       /\ log[1] = <<"new CanvasLayer", canvas.hidpi>>
       /\ log[Len(log)] = <<"canvas.resize", canvas.width, canvas.height>>
       /\ canvas.width = QueriedBBox.width
       /\ canvas.height = QueriedBBox.height

\* export("auto", true) of a displayed element whose box is cached.
C13_Witness ==
  /\ op = "export" /\ ret[2] = "auto" /\ ret[3].hidpi
  /\ ret[3] = [backend |-> "canvas", hidpi |-> TRUE, width |-> 4, height |-> 1]
  /\ _bbox = <<BBox(0, 0, 4, 1)>>

\* The calls of a log other than the note of the box assigned.
Calls(l) == SelectSeq(l, LAMBDA c : c[1] # "this._bbox")

\* C14: a resize notification reaches a view that is not removed, and runs, in
\* this order and once each: update_bbox (which replaces the cached box by a
\* fresh measurement whatever it held), _after_resize, finish. The finish
\* signal is given also when the box measured equals the box cached before.
C14_ResizeSequence ==
  op = "resize_notify" =>
    /\ lifecycle \in Live
    /\ Calls(log) = << <<"update_bbox">>, <<"_update_bbox">>, <<"_after_resize">>, <<"finish">> >>
    /\ Did(<<"this._bbox", "same">>) \/ Did(<<"this._bbox", "replaced">>)
    /\ _bbox = <<measure_bbox(Host)>>
    /\ _has_finished

\* A resize notification that measured the box already cached.
C14_Witness ==
  /\ op = "resize_notify" /\ displayed
  /\ Did(<<"this._bbox", "same">>) /\ Did(<<"finish">>)
  /\ _bbox # <<ZeroBBox>>

\* C15: every render_to(element) on a view that is not removed is eventually
\* followed by the finish signal, in the same call when the element is not
\* displayed and through a resize notification when it is, given that the host
\* delivers every resize notification that is due.
C15_RenderToLeadsToFinish ==
  (op = "render_to" /\ lifecycle = "ready") ~> (Did(<<"finish">>) \/ lifecycle = "removed")

\* The view has rendered at least once: render() installs the style sheets, and
\* nothing but the empty() of a later render takes them away.
HasRendered == el.sheets # <<>>

\* C16: while the view is connected to its model, in every state after the
\* first render and in every state after a handled visible change, whatever
\* visible changes, styles changes, renders and resize notifications came
\* before: the display style sheet holds the display-none override exactly when
\* model.visible is false and is empty exactly when model.visible is true.
C16_DisplayFollowsVisible ==
  (lifecycle = "ready" /\ (HasRendered \/ op = "set_visible")) =>
    /\ _display = DisplayNoneCss <=> ~model.visible
    /\ _display = EmptyCss <=> model.visible

\* A hidden, rendered element after a visible change and then a styles change.
C16_Witness ==
  /\ lifecycle = "ready" /\ HasRendered /\ op = "set_styles"
  /\ ~model.visible /\ vis_trip.phase = "off"
  /\ _display = DisplayNoneCss

\* The names tried for a CSS name, in order.
Variants(name) == <<name, "-webkit-" \o name, "-moz-" \o name>>

\* What _apply_styles is to do with one pair: try the variants up to the first
\* the host knows; assign that one when the value is a string; record the
\* diagnostic when the host knows none.
ExpectedPairCalls(pair) ==
  LET name == CssName(pair[1])
      tried == Variants(name)
      recognized == {i \in 1..3 : tried[i] \in HostProps}
  IN IF recognized = {}
     THEN [i \in 1..3 |-> <<"apply", tried[i]>>]
          \o << <<"logger.trace", "unknown CSS property '" \o name \o "'">> >>
     ELSE LET first == CHOOSE i \in recognized : \A j \in recognized : i <= j
          IN [i \in 1..first |-> <<"apply", tried[i]>>]
             \o (IF pair[2].isString THEN << <<"el.style", tried[first], pair[2].s>> >> ELSE <<>>)

RECURSIVE ExpectedStyleCalls(_)
ExpectedStyleCalls(pairs) ==
  IF pairs = <<>> THEN <<>>
  ELSE ExpectedPairCalls(Head(pairs)) \o ExpectedStyleCalls(Tail(pairs))

\* The value the calls of a log last assigned to a host property (<<>>: none).
RECURSIVE LastAssigned(_, _)
LastAssigned(l, prop) ==
  IF l = <<>> THEN <<>>
  ELSE LET c == l[Len(l)]
       IN IF c[1] = "el.style" /\ c[2] = prop THEN <<c[3]>>
          ELSE LastAssigned(SubSeq(l, 1, Len(l) - 1), prop)

\* C17: applying the inline styles treats each pair of the model's styles in
\* turn, with name the attribute with "_" replaced by "-": it tries name, then
\* "-webkit-" + name, then "-moz-" + name, and stops at the first the host knows
\* (so no prefixed name is tried when the host knows the unprefixed one); it
\* assigns that one property, and only when the value is a string; it records
\* the diagnostic exactly when the host knows none of the three; and it goes on
\* to the next pair in every case. The element then holds each value assigned.
C17_PrefixFallback ==
  StylesApplied =>
    /\ StyleCalls(log) = ExpectedStyleCalls(OwnPairs(model.styles))
    /\ \A prop \in HostProps :
         LastAssigned(log, prop) # <<>> => el.style[prop] = LastAssigned(log, prop)[1]

\* Styles applied with a pair the host does not know in any form, followed by a
\* pair it knows both unprefixed and with the -webkit- prefix.
C17_Witness ==
  /\ op = "render"
  /\ model.styles = CSSStyles(<<<<attr_zoom, Str("a")>>, <<attr_user_select, Str("a")>>>>)
  /\ StyleCalls(log) = << <<"apply", "zoom">>, <<"apply", "-webkit-zoom">>, <<"apply", "-moz-zoom">>,
                          <<"logger.trace", "unknown CSS property 'zoom'">>,
                          <<"apply", "user-select">>, <<"el.style", "user-select", "a">> >>
  /\ el.style["user-select"] = "a" /\ el.style["-webkit-user-select"] = ""

\* The state of the view and of its element, without the calls that led to it.
StateOf(v) == [v EXCEPT !.log = <<>>]

\* C18: with the model and the host unchanged, each of render(),
\* _apply_styles(), _apply_visible() and after_resize() run twice in a row
\* leaves the view and its element (style sheets, classes, inline styles,
\* display sheet, style sheet, cached box, finished flag) as running it once
\* does; in particular running it again right after it has run changes nothing.
C18_Idempotent ==
  lifecycle \in Live =>
    /\ StateOf(render(render(View, model), model)) = StateOf(render(View, model))
    /\ StateOf(_apply_styles(_apply_styles(View, model), model)) = StateOf(_apply_styles(View, model))
    /\ StateOf(_apply_visible(_apply_visible(View, model), model)) = StateOf(_apply_visible(View, model))
    /\ StateOf(after_resize(after_resize(View, Host), Host)) = StateOf(after_resize(View, Host))
    /\ op = "render" => StateOf(render(View, model)) = StateOf(View)
    /\ (op = "set_styles" /\ "styles" \in signals) => StateOf(_apply_styles(View, model)) = StateOf(View)
    /\ (op = "set_visible" /\ "visible" \in signals) => StateOf(_apply_visible(View, model)) = StateOf(View)
    /\ op \in {"after_resize", "resize_notify"} => StateOf(after_resize(View, Host)) = StateOf(View)

\* A render of a hidden model with inline styles, style sheets and classes, over
\* a cached box: a second render leaves every part as it is.
C18_Witness ==
  /\ op = "render" /\ ~model.visible /\ model.styles # DefaultStyles
  /\ el.style["color"] = "red" /\ _display = DisplayNoneCss
  /\ _bbox # <<>> /\ Len(el.sheets) = 6 /\ el.classes = <<"bk-button", "a", "b">>
  /\ StateOf(render(View, model)) = StateOf(View)

\* The host property a CSS name stands for: the first variant the host knows ("": none).
HostPropertyOf(name) ==
  LET tried == Variants(name)
      recognized == {i \in 1..3 : tried[i] \in HostProps}
  IN IF recognized = {} THEN ""
     ELSE tried[CHOOSE i \in recognized : \A j \in recognized : i <= j]

\* The value a style source names for a host property: that of its last pair
\* with a string value that stands for the property (<<>>: it names none).
NamedValue(source, prop) ==
  LET naming == SelectSeq(OwnPairs(source),
                          LAMBDA p : p[2].isString /\ HostPropertyOf(CssName(p[1])) = prop)
  IN IF naming = <<>> THEN <<>> ELSE <<naming[Len(naming)][2].s>>

\* C19: a handled styles change, and a render, set the inline properties the
\* current model.styles names to the values it gives, and leave every other
\* inline property as it was, so a property set for an earlier value of styles
\* and absent from the current one stays set; no other operation writes an
\* inline property. A styles change leaves the display sheet, the style sheet,
\* the cached box and the installed sheets and classes unchanged.
C19_StylesFrame ==
  [][LET applied == \/ op' = "set_styles" /\ "styles" \in signals
                    \/ op' \in {"render", "render_to"}
     IN /\ \A prop \in HostProps :
             IF applied /\ NamedValue(model'.styles, prop) # <<>>
             THEN el'.style[prop] = NamedValue(model'.styles, prop)[1]
             ELSE el'.style[prop] = el.style[prop]
        /\ op' = "set_styles" =>
             /\ _display' = _display /\ style' = style /\ _bbox' = _bbox
             /\ el'.sheets = el.sheets /\ el'.classes = el.classes
             /\ _has_finished' = _has_finished]_vars

\* The styles of a hidden element with a cached box went back to the default:
\* the color set for the earlier value is still on the element.
C19_Witness ==
  /\ op = "set_styles" /\ "styles" \in signals
  /\ model.styles = DefaultStyles
  /\ el.style["color"] = "red"
  /\ _display = DisplayNoneCss /\ _bbox # <<>> /\ _bbox # <<ZeroBBox>>

====
